---- MODULE Spec2Model ----
(***************************************************************************)
(* Model of install-plasticscm.py: the install/upgrade orchestration of    *)
(* main(), the version oracle, the first-install pipeline (runtime,        *)
(* client, server) and the staging cleanup, over an abstract filesystem.   *)
(*                                                                         *)
(* Text is a sequence of symbols.  Each literal of the version pattern is  *)
(* one symbol: "V" is the label "Version:", "S" is "<span>", "E" is        *)
(* "</span>", " " a blank, "\n" a line break; any other symbol is an       *)
(* ordinary character ("9", "8" stand for the text of a version number).   *)
(***************************************************************************)
EXTENDS Integers, Sequences, FiniteSets, TLC

\* Number of consecutive runs of the installer on the same host.
MaxRuns == 2

(***************************************************************************)
(* Python values: str and bytes never compare equal, None is its own type. *)
(***************************************************************************)
None == [type |-> "None", val |-> <<>>]
Str(s) == [type |-> "str", val |-> s]
Bytes(s) == [type |-> "bytes", val |-> s]
\* A command with its arguments, as get_certificates_command returns it.
Tuple(s) == [type |-> "tuple", val |-> s]

\* Python's == on str / bytes / None values.
PyEq(a, b) == a.type = b.type /\ a.val = b.val

(***************************************************************************)
(* get_first_version: the first match of the pattern  label, any symbols   *)
(* of the same line, line break, blanks, span opening, and then the group: *)
(* the longest run of symbols that are not blanks.                         *)
(***************************************************************************)
\* Positions of the first line break at or after position i (0 if none).
RECURSIVE FirstNewline(_, _)
FirstNewline(html, i) ==
    IF i > Len(html) THEN 0
    ELSE IF html[i] = "\n" THEN i
    ELSE FirstNewline(html, i + 1)

\* First position at or after i that does not hold a blank.
RECURSIVE SkipBlanks(_, _)
SkipBlanks(html, i) ==
    IF i <= Len(html) /\ html[i] = " " THEN SkipBlanks(html, i + 1) ELSE i

\* The longest run of non-blank symbols starting at i: the group ([^ ]*).
RECURSIVE NonBlankRun(_, _)
NonBlankRun(html, i) ==
    IF i > Len(html) \/ html[i] = " " THEN <<>>
    ELSE <<html[i]>> \o NonBlankRun(html, i + 1)

\* Does the pattern match with its first symbol at position i ?
\* ".*" cannot cross a line break, so the "\n" of the pattern is the first
\* line break after the label; " *" then takes every blank; "<span>" follows.
MatchAt(html, i) ==
    /\ i <= Len(html)
    /\ html[i] = "V"
    /\ LET nl == FirstNewline(html, i + 1) IN
         /\ nl # 0
         /\ LET sp == SkipBlanks(html, nl + 1) IN
              sp <= Len(html) /\ html[sp] = "S"

\* group(1) of the match that starts at i.
GroupAt(html, i) ==
    NonBlankRun(html, SkipBlanks(html, FirstNewline(html, i + 1) + 1) + 1)

get_first_version(html) ==
    LET starts == {i \in 1..Len(html) : MatchAt(html, i)} IN
      IF starts = {} THEN None
      ELSE LET first == CHOOSE i \in starts : \A j \in starts : i <= j
           IN Str(GroupAt(html, first))

\* Variant: a failed request is not turned into None.
retrieve_latest_version_uncaught(fetched, html) == get_first_version(html)

\* What the version-page request gives: "error" (unreachable, HTTP error,
\* bytes that are not UTF-8) or the decoded page.
retrieve_latest_version(fetched, html) ==
    IF fetched = "error" THEN None ELSE get_first_version(html)


(***************************************************************************)
(* The filesystem.                                                         *)
(***************************************************************************)
\* The launchers list of install_client.  Its last three string literals
\* are adjacent with no comma between them, so Python joins them into one
\* element: the list has five elements.
JoinedName == "plasticapirepostatscalculatormono_setup"
launchers ==
    <<"clconfigureclient", "cm", "gtkplastic", "gtkmergetool", JoinedName>>

\* File names that can occur in a client bundle's scripts directory.
Names ==
    {"clconfigureclient", "cm", "gtkplastic", "gtkmergetool", "plasticapi",
     "repostatscalculator", "mono_setup", JoinedName}

\* A file: permission bits, and whether its text holds @@MONOINSTALLDIR@@.
NoFile == [present |-> FALSE, mode |-> 0, tok |-> FALSE]
File(m, t) == [present |-> TRUE, mode |-> m, tok |-> t]

\* A client tree as a bundle holds it (client/ with scripts/, theme/,
\* gitlibs/libgit2_x64.so, scripts/*.conf); ver is what its cm prints for
\* the version argument.
NoTree ==
    [dir |-> FALSE, scripts |-> {}, theme |-> FALSE, gitlib |-> FALSE,
     conf |-> FALSE, mode |-> 0, tok |-> FALSE, ver |-> <<>>]

EmptyFs ==
    [base |-> FALSE,          \* /opt/plasticscm5
     mono |-> FALSE,          \* /opt/plasticscm5/mono
     monoLib |-> "absent",    \* /opt/plasticscm5/mono/lib: absent, dir, file
     libgit |-> FALSE,        \* mono/lib/libgit2_x64.so
     tools |-> FALSE,         \* /opt/plasticscm5/certtools (certmgr, mozroots)
     client |-> FALSE,        \* /opt/plasticscm5/client
     nested |-> FALSE,        \* /opt/plasticscm5/client/client
     scripts |-> [n \in Names |-> NoFile],   \* client/scripts/<n>
     root |-> [n \in Names |-> NoFile],      \* client/<n>
     ctheme |-> FALSE,        \* client/theme
     gitlib |-> FALSE,        \* client/gitlibs/libgit2_x64.so
     sconf |-> FALSE,         \* client/scripts/*.conf
     rconf |-> FALSE,         \* client/*.conf
     cmVer |-> <<>>,          \* what client/cm prints for the version argument
     theme |-> FALSE,         \* /opt/plasticscm5/theme
     themeNested |-> FALSE,   \* /opt/plasticscm5/theme/theme
     server |-> FALSE,        \* /opt/plasticscm5/server
     serverNested |-> FALSE,  \* /opt/plasticscm5/server/server
     usrbin |-> [n \in Names |-> "none"],    \* /usr/bin/<n>: none, link, other
     tmpBase |-> FALSE,       \* <tmp>/plasticupdater
     tmpClient |-> NoTree,    \* <tmp>/plasticupdater/client
     tmpServer |-> FALSE]     \* <tmp>/plasticupdater/server

\* The result of a step: the filesystem it leaves and the exception it
\* raises ("" when it returns normally).
Ok(f) == [fs |-> f, err |-> ""]
Raise(f, e) == [fs |-> f, err |-> e]

(***************************************************************************)
(* Permission bits.                                                        *)
(***************************************************************************)
S_IFREG == 32768
ExecBits == 73
ModeMask == 4096

RECURSIVE BitOr(_, _)
BitOr(a, b) ==
    IF a = 0 THEN b
    ELSE IF b = 0 THEN a
    ELSE 2 * BitOr(a \div 2, b \div 2)
         + (IF a % 2 = 1 \/ b % 2 = 1 THEN 1 ELSE 0)

\* stat.S_IMODE
S_IMODE(perms) == perms % ModeMask

\* Variant: only the owner's execute bit is set.
set_executable_owner_only(m) == S_IMODE(BitOr(S_IFREG + m, 64))

\* set_executable: the mode chmod is given for a regular file of mode m.
set_executable(m) == S_IMODE(BitOr(S_IFREG + m, ExecBits))


(***************************************************************************)
(* Steps of the first install, each as a function of the filesystem.       *)
(***************************************************************************)
\* get_tmp_dir: the staging root is created when it is absent.
get_tmp_dir(f) == [f EXCEPT !.tmpBase = TRUE]

\* download_zip_to_dir for the client bundle.  result is "error" (nothing
\* was extracted), "partial" (extractall stopped after creating the tree)
\* or "ok"; tree is the client tree of the archive (NoTree: the archive has
\* no client directory).  Every exception is printed and raised again.
download_client_zip(f, result, tree) ==
    IF result = "error" THEN Raise(f, "FetchError")
    ELSE IF result = "partial"
    THEN Raise([f EXCEPT !.tmpClient =
                    IF tree.dir THEN [NoTree EXCEPT !.dir = TRUE]
                    ELSE f.tmpClient], "FetchError")
    ELSE Ok([f EXCEPT !.tmpClient = IF tree.dir THEN tree ELSE f.tmpClient])

\* download_zip_to_dir for the server bundle; hasDir: the archive has a
\* server directory.
download_server_zip(f, result, hasDir) ==
    IF result = "error" THEN Raise(f, "FetchError")
    ELSE IF result = "partial"
    THEN Raise([f EXCEPT !.tmpServer = f.tmpServer \/ hasDir], "FetchError")
    ELSE Ok([f EXCEPT !.tmpServer = f.tmpServer \/ hasDir])

\* shutil.move(Paths.Tmp.Client, Paths.Plastic.Client).  A destination that
\* is a directory receives the source inside itself (client/client), and
\* the move fails when that exists too.
move_client_dir(f) ==
    IF ~f.tmpClient.dir THEN Raise(f, "FileNotFoundError")
    ELSE IF f.client
    THEN IF f.nested THEN Raise(f, "shutil.Error")
         ELSE Ok([f EXCEPT !.nested = TRUE, !.tmpClient = NoTree])
    ELSE LET t == f.tmpClient IN
         Ok([f EXCEPT
               !.client = TRUE,
               !.scripts = [n \in Names |->
                              IF n \in t.scripts
                              THEN File(t.mode, n = "mono_setup" /\ t.tok)
                              ELSE NoFile],
               !.root = [n \in Names |-> NoFile],
               !.ctheme = t.theme,
               !.gitlib = t.gitlib,
               !.sconf = t.conf,
               !.rconf = FALSE,
               !.cmVer = t.ver,
               !.tmpClient = NoTree])

\* shutil.move(client/theme, Paths.Plastic.Theme)
move_theme(f) ==
    IF ~f.ctheme THEN Raise(f, "FileNotFoundError")
    ELSE IF f.theme
    THEN IF f.themeNested THEN Raise(f, "shutil.Error")
         ELSE Ok([f EXCEPT !.themeNested = TRUE, !.ctheme = FALSE])
    ELSE Ok([f EXCEPT !.theme = TRUE, !.ctheme = FALSE])

\* The loop moving scripts/*.conf into the client root.
move_conf(f) ==
    IF ~f.sconf THEN Ok(f)
    ELSE IF f.rconf THEN Raise(f, "shutil.Error")
    ELSE Ok([f EXCEPT !.sconf = FALSE, !.rconf = TRUE])

\* replace_in_file on client/<name>: every occurrence of the token is
\* replaced; any exception (ioOk false) is printed and swallowed.
replace_in_file(f, name, ioOk) ==
    IF ioOk THEN [f EXCEPT !.root[name].tok = FALSE] ELSE f

\* Variant: the symlink replaces an existing /usr/bin entry.
install_launcher_force(f, name, ioOk) ==
    IF ~f.scripts[name].present THEN Raise(f, "FileNotFoundError")
    ELSE IF f.root[name].present THEN Raise(f, "shutil.Error")
    ELSE LET src == f.scripts[name]
             linked == [f EXCEPT
                          !.scripts[name] = NoFile,
                          !.root[name] = File(set_executable(src.mode), src.tok),
                          !.usrbin[name] = "link"]
         IN IF name = "mono_setup"
            THEN Ok(replace_in_file(linked, name, ioOk))
            ELSE Ok(linked)

\* One iteration of the launcher loop: move out of scripts, set_executable,
\* symlink in /usr/bin, and the substitution for the launcher mono_setup.
install_launcher(f, name, ioOk) ==
    IF ~f.scripts[name].present THEN Raise(f, "FileNotFoundError")
    ELSE IF f.root[name].present THEN Raise(f, "shutil.Error")
    ELSE LET src == f.scripts[name]
             moved == [f EXCEPT
                         !.scripts[name] = NoFile,
                         !.root[name] = File(set_executable(src.mode), src.tok)]
         IN IF moved.usrbin[name] # "none" THEN Raise(moved, "FileExistsError")
            ELSE LET linked == [moved EXCEPT !.usrbin[name] = "link"] IN
                 IF name = "mono_setup"
                 THEN Ok(replace_in_file(linked, name, ioOk))
                 ELSE Ok(linked)

\* The launcher loop from element i of the list on.
RECURSIVE launcher_loop(_, _, _)
launcher_loop(f, i, ioOk) ==
    IF i > Len(launchers) THEN Ok(f)
    ELSE LET r == install_launcher(f, launchers[i], ioOk) IN
         IF r.err # "" THEN r ELSE launcher_loop(r.fs, i + 1, ioOk)

\* shutil.move(client/gitlibs/libgit2_x64.so, Paths.Mono.Lib)
move_lib(f) ==
    IF ~f.gitlib THEN Raise(f, "FileNotFoundError")
    ELSE IF f.monoLib = "dir"
    THEN IF f.libgit THEN Raise(f, "shutil.Error")
         ELSE Ok([f EXCEPT !.libgit = TRUE, !.gitlib = FALSE])
    ELSE IF f.monoLib = "file" THEN Ok([f EXCEPT !.gitlib = FALSE])
    ELSE IF f.mono THEN Ok([f EXCEPT !.monoLib = "file", !.gitlib = FALSE])
    ELSE Raise(f, "FileNotFoundError")

\* shutil.rmtree(Paths.Plastic.ClientScripts, ignore_errors=True)
rm_scripts(f) ==
    [f EXCEPT !.scripts = [n \in Names |-> NoFile], !.sconf = FALSE]

\* Variant: the shared library is not relocated.
commit_client_without_lib(f, ioOk) ==
    LET r1 == move_client_dir(f)
        r2 == IF r1.err # "" THEN r1 ELSE move_theme(r1.fs)
        r3 == IF r2.err # "" THEN r2 ELSE move_conf(r2.fs)
        r4 == IF r3.err # "" THEN r3 ELSE launcher_loop(r3.fs, 1, ioOk)
    IN IF r4.err # "" THEN r4 ELSE Ok(rm_scripts(r4.fs))

\* The body of install_client's try block after the download: each step
\* runs unless an earlier one raised.
commit_client(f, ioOk) ==
    LET r1 == move_client_dir(f)
        r2 == IF r1.err # "" THEN r1 ELSE move_theme(r1.fs)
        r3 == IF r2.err # "" THEN r2 ELSE move_conf(r2.fs)
        r4 == IF r3.err # "" THEN r3 ELSE launcher_loop(r3.fs, 1, ioOk)
        r5 == IF r4.err # "" THEN r4 ELSE move_lib(r4.fs)
    IN IF r5.err # "" THEN r5 ELSE Ok(rm_scripts(r5.fs))

\* The finally block of install_client: rmtree(Paths.Tmp.Client).
client_finally(f) == [f EXCEPT !.tmpClient = NoTree]

\* shutil.move(Paths.Tmp.Server, Paths.Plastic.Server)
commit_server(f) ==
    IF ~f.tmpServer THEN Raise(f, "FileNotFoundError")
    ELSE IF f.server
    THEN IF f.serverNested THEN Raise(f, "shutil.Error")
         ELSE Ok([f EXCEPT !.serverNested = TRUE, !.tmpServer = FALSE])
    ELSE Ok([f EXCEPT !.server = TRUE, !.tmpServer = FALSE])

\* The finally block of install_server: rmtree(Paths.Tmp.Client).
server_finally(f) == [f EXCEPT !.tmpClient = NoTree]

\* download_mono.  The except clause evaluates Paths.Plastic.Mono, which
\* class Plastic does not define: the handler raises AttributeError before
\* rmtree and before the raise statement.
download_mono(f, result, tar) ==
    IF result = "error" THEN Raise(f, "AttributeError")
    ELSE IF result = "partial"
    THEN Raise([f EXCEPT !.mono = TRUE], "AttributeError")
    ELSE Ok([f EXCEPT
               !.mono = TRUE,
               !.monoLib = IF tar.lib THEN "dir" ELSE f.monoLib,
               !.tools = f.tools \/ tar.tools])

\* get_certificates_command: a pair (command, args) or None.
get_certificates_command(path) ==
    IF "update-ca-certificates" \in path
    THEN Tuple(<<"update-ca-certificates">>)
    ELSE IF "trust" \in path THEN Tuple(<<"trust", "extract-compat">>)
    ELSE None

\* run_certificates_command unpacks the result into two names, which
\* raises TypeError for None.
run_certificates_command(path) ==
    IF get_certificates_command(path) = None THEN "TypeError" ELSE ""

\* update_certificates: the trust command, then certmgr and mozroots of
\* certtools, whose absence makes subprocess.run raise.  cert-sync is taken
\* to be in every extracted runtime; exit statuses are ignored.
update_certificates(f, path) ==
    IF run_certificates_command(path) # ""
    THEN Raise(f, run_certificates_command(path))
    ELSE IF ~f.tools THEN Raise(f, "FileNotFoundError")
    ELSE Ok(f)

(***************************************************************************)
(* The version oracle's probe and main's decision.                         *)
(***************************************************************************)
\* Variant: the host counts as installed only with the server in place.
retrieve_current_version_needs_server(f) ==
    IF ~f.base \/ ~(f.client /\ f.root["cm"].present) \/ ~f.server THEN None
    ELSE Bytes(f.cmVer)

\* retrieve_current_version: None, or the raw stdout (bytes) of cm version.
retrieve_current_version(f) ==
    IF ~f.base \/ ~(f.client /\ f.root["cm"].present) THEN None
    ELSE Bytes(f.cmVer)

\* Variant: the --no-upgrade test comes before the first-install test.
main_branch_flag_first(current, latest, no_upgrade) ==
    LET is_already_installed == current # None IN
      IF is_already_installed /\ PyEq(current, latest) THEN "UpToDate"
      ELSE IF no_upgrade THEN "SkippedUpgrade"
      ELSE IF ~is_already_installed THEN "FirstInstall"
      ELSE "Upgrade"

\* Variant: the --no-upgrade flag is not consulted.
main_branch_ignores_flag(current, latest, no_upgrade) ==
    LET is_already_installed == current # None IN
      IF is_already_installed /\ PyEq(current, latest) THEN "UpToDate"
      ELSE IF ~is_already_installed THEN "FirstInstall"
      ELSE "Upgrade"

\* The branch main takes once both versions are known.
main_branch(current, latest, no_upgrade) ==
    LET is_already_installed == current # None IN
      IF is_already_installed /\ PyEq(current, latest) THEN "UpToDate"
      ELSE IF ~is_already_installed THEN "FirstInstall"
      ELSE IF ~no_upgrade THEN "Upgrade"
      ELSE "SkippedUpgrade"

\* Variant: no privilege test.
is_root_always(u) == TRUE

\* main's privilege test.
is_root(u) == u = 0

\* main's test of the latest version.
latest_unknown(v) == v = None


(***************************************************************************)
(* Inputs.                                                                 *)
(***************************************************************************)
\* Vendor pages.  PageScenario is the page of the specification's scenario:
\* Version: foo, line break, two blanks, <span>9.0.16.1234</span>.
PageScenario == <<"V", " ", "f", "\n", " ", " ", "S", "9", "E">>
PageSpaced == <<"V", "\n", "S", "9", " ", "E">>
PageOther == <<"x", "V", "\n", " ", "S", "8", " ", "E">>
PageNoMatch == <<"V", " ", "S", "9", "E">>
Pages == {PageScenario, PageSpaced, PageOther, PageNoMatch}

\* What an installed cm prints for the version argument.
CmOutputs == {<<"9">>, <<"9", "\n">>, <<"8", "\n">>}

Uids == {0, 1000}

\* The launcher names the bundle ships.
ShippedLaunchers == Names \ {JoinedName}

\* Permission bits of the files of a bundle: rw-r--r--, rw-------, and
\* rwsr-x--- (set-user-id, some execute bits already set).
ArchiveModes == {420, 384, 2536}

VendorTree(m) ==
    [dir |-> TRUE, scripts |-> ShippedLaunchers, theme |-> TRUE,
     gitlib |-> TRUE, conf |-> TRUE, mode |-> m, tok |-> TRUE,
     ver |-> <<"9", "\n">>]

\* Client bundles: the vendor's, one that also ships a script named like
\* the joined list element, and bundles lacking one expected part.
ClientTrees ==
    {VendorTree(m) : m \in ArchiveModes}
    \cup {[VendorTree(m) EXCEPT !.scripts = Names] : m \in ArchiveModes}
    \cup {[VendorTree(420) EXCEPT !.theme = FALSE],
          [VendorTree(420) EXCEPT !.gitlib = FALSE],
          [VendorTree(420) EXCEPT !.scripts = Names \ {"cm"}],
          [VendorTree(420) EXCEPT !.scripts = Names \ {"plasticapi"}],
          [VendorTree(420) EXCEPT !.scripts = {"clconfigureclient", "cm"}],
          NoTree}

\* Runtime archives: with or without mono/lib, with or without certtools.
MonoTars == [lib : BOOLEAN, tools : BOOLEAN]

DownloadResults == {"ok", "partial", "error"}

\* A host with the suite installed: cm prints out.
InstalledFs(out) ==
    [EmptyFs EXCEPT
       !.base = TRUE, !.mono = TRUE, !.monoLib = "dir", !.libgit = TRUE,
       !.tools = TRUE, !.client = TRUE,
       !.root = [n \in Names |->
                   IF n \in ShippedLaunchers THEN File(493, FALSE) ELSE NoFile],
       !.rconf = TRUE, !.cmVer = out, !.theme = TRUE, !.server = TRUE,
       !.usrbin = [n \in Names |->
                     IF n \in ShippedLaunchers THEN "link" ELSE "none"]]

\* Hosts at the first run: nothing installed, an empty live root, another
\* program named cm in /usr/bin, a symlink left in /usr/bin by a removed
\* installation, or an installed suite.
InitialHosts ==
    {EmptyFs, [EmptyFs EXCEPT !.base = TRUE],
     [EmptyFs EXCEPT !.usrbin["cm"] = "other"],
     [EmptyFs EXCEPT !.usrbin["gtkplastic"] = "link"]}
    \cup {InstalledFs(out) : out \in CmOutputs}

\* The trust-update commands found in PATH.
Paths == SUBSET {"update-ca-certificates", "trust"}

(***************************************************************************)
(* State.                                                                  *)
(***************************************************************************)
VARIABLES
    pc,               \* position in main / do_first_install
    run,              \* number of runs started
    uid,              \* os.getuid() of the current run
    no_upgrade,       \* args.no_upgrade of the current run
    page,             \* what the version-page request of the run gave
    latest_version,   \* main's latest_version
    current_version,  \* main's current_version
    exc,              \* the exception in flight ("" for none)
    outcome,          \* how the current run ended ("" while it runs)
    log,              \* the operations of the current run, in order
    fs,               \* the filesystem
    fs0,              \* the filesystem when the current run started
    path              \* the trust-update commands in PATH

vars == <<pc, run, uid, no_upgrade, page, latest_version, current_version, exc,
          outcome, log, fs, fs0, path>>

\* No version-page request was made.
NoPage == [fetched |-> "none", html |-> <<>>]

Init ==
    /\ pc = "idle"
    /\ run = 0
    /\ uid = 0
    /\ no_upgrade = FALSE
    /\ page = NoPage
    /\ latest_version = None
    /\ current_version = None
    /\ exc = ""
    /\ outcome = ""
    /\ log = <<>>
    /\ fs \in InitialHosts
    /\ fs0 = fs
    /\ path \in Paths

\* The run ends with outcome o.
End(o) == pc' = "done" /\ outcome' = o

\* main, lines 67-78: arguments, privilege test, latest version.
Start ==
    /\ pc \in {"idle", "done"}
    /\ run < MaxRuns
    /\ run' = run + 1
    /\ fs0' = fs
    /\ exc' = ""
    /\ current_version' = None
    /\ \E u \in Uids, labs \in BOOLEAN, nu \in BOOLEAN,
          fetched \in {"ok", "error"}, html \in Pages :
         /\ uid' = u
         /\ no_upgrade' = nu
         /\ IF ~is_root(u)
            THEN /\ End("PermissionDenied")
                 /\ page' = NoPage
                 /\ latest_version' = None
                 /\ log' = <<>>
            ELSE LET v == retrieve_latest_version(fetched, html) IN
                 /\ page' = [fetched |-> fetched,
                              html |-> IF fetched = "ok" THEN html ELSE <<>>]
                 /\ latest_version' = v
                 /\ log' = <<IF labs THEN "page labs" ELSE "page download">>
                 /\ IF latest_unknown(v)
                    THEN End("VersionUnknown")
                    ELSE pc' = "current" /\ outcome' = ""
    /\ UNCHANGED <<fs, path>>

\* main, lines 80-92: installed version and the branch taken.
Decide ==
    /\ pc = "current"
    /\ LET cur == retrieve_current_version(fs)
           br == main_branch(cur, latest_version, no_upgrade)
       IN /\ current_version' = cur
          /\ log' = Append(log, "probe")
          /\ IF br = "UpToDate" THEN End("UpToDate")
             ELSE IF br = "SkippedUpgrade" THEN End("SkippedUpgrade")
             ELSE IF br = "FirstInstall"
             THEN pc' = "first" /\ outcome' = ""
             ELSE pc' = "upgrade" /\ outcome' = ""
    /\ UNCHANGED <<run, uid, no_upgrade, page, latest_version, exc, fs, fs0, path>>

\* do_upgrade: prints and returns.
do_upgrade ==
    /\ pc = "upgrade"
    /\ log' = Append(log, "do_upgrade")
    /\ End("UpgradeReturned")
    /\ UNCHANGED <<run, uid, no_upgrade, page, latest_version, current_version,
                   exc, fs, fs0, path>>

\* A step of do_first_install's try block: r is its result, next the
\* position after it, handler the position reached when it raises.
Step(r, event, next, handler) ==
    /\ fs' = r.fs
    /\ log' = Append(log, event)
    /\ exc' = r.err
    /\ pc' = IF r.err # "" THEN handler ELSE next
    /\ UNCHANGED <<run, uid, no_upgrade, page, latest_version, current_version,
                   outcome, fs0, path>>

\* do_first_install, lines 146-149: os.makedirs(BASE, exist_ok=True).
do_first_install ==
    /\ pc = "first"
    /\ Step(Ok([fs EXCEPT !.base = TRUE]), "do_first_install", "mono", "except")

\* install_mono: download_mono.
DownloadMono ==
    /\ pc = "mono"
    /\ \E result \in DownloadResults, tar \in MonoTars :
         Step(download_mono(fs, result, tar), "fetch runtime", "certs", "except")

\* install_mono: update_certificates.
UpdateCertificates ==
    /\ pc = "certs"
    /\ Step(update_certificates(fs, path), "certificates", "c_fetch", "except")

\* install_client: get_tmp_dir and the download.
FetchClient ==
    /\ pc = "c_fetch"
    /\ \E result \in DownloadResults, tree \in ClientTrees :
         Step(download_client_zip(get_tmp_dir(fs), result, tree),
              "fetch client", "c_commit", "c_finally")

\* install_client: the relocation of the staged client.
CommitClient ==
    /\ pc = "c_commit"
    /\ \E ioOk \in BOOLEAN :
         Step(commit_client(fs, ioOk), "commit client", "c_finally", "c_finally")

\* Variant: install_server is not called.
after_client_skips_server(e) == IF e # "" THEN "except" ELSE "alldone"

\* Variant: install_client's exception is swallowed.
after_client_goes_on(e) == "s_fetch"

\* Where do_first_install goes after install_client's finally block.
after_client(e) == IF e # "" THEN "except" ELSE "s_fetch"

\* install_client: the finally block; the exception in flight goes on.
ClientFinally ==
    /\ pc = "c_finally"
    /\ fs' = client_finally(fs)
    /\ log' = Append(log, "cleanup")
    /\ pc' = after_client(exc)
    /\ UNCHANGED <<run, uid, no_upgrade, page, latest_version, current_version,
                   exc, outcome, fs0, path>>

\* install_server: get_tmp_dir and the download.
FetchServer ==
    /\ pc = "s_fetch"
    /\ \E result \in DownloadResults, hasDir \in BOOLEAN :
         Step(download_server_zip(get_tmp_dir(fs), result, hasDir),
              "fetch server", "s_commit", "s_finally")

\* install_server: the relocation of the staged server.
CommitServer ==
    /\ pc = "s_commit"
    /\ Step(commit_server(fs), "commit server", "s_finally", "s_finally")

\* install_server: the finally block.
ServerFinally ==
    /\ pc = "s_finally"
    /\ fs' = server_finally(fs)
    /\ log' = Append(log, "cleanup")
    /\ pc' = IF exc # "" THEN "except" ELSE "alldone"
    /\ UNCHANGED <<run, uid, no_upgrade, page, latest_version, current_version,
                   exc, outcome, fs0, path>>

\* do_first_install: the except clause prints the failure and returns.
InstallFailed ==
    /\ pc = "except"
    /\ End("Failed")
    /\ UNCHANGED <<run, uid, no_upgrade, page, latest_version, current_version,
                   exc, log, fs, fs0, path>>

\* do_first_install: All done!
AllDone ==
    /\ pc = "alldone"
    /\ End("Complete")
    /\ UNCHANGED <<run, uid, no_upgrade, page, latest_version, current_version,
                   exc, log, fs, fs0, path>>

Next ==
    \/ Start
    \/ Decide
    \/ do_upgrade
    \/ do_first_install
    \/ DownloadMono
    \/ UpdateCertificates
    \/ FetchClient
    \/ CommitClient
    \/ ClientFinally
    \/ FetchServer
    \/ CommitServer
    \/ ServerFinally
    \/ InstallFailed
    \/ AllDone

Spec == Init /\ [][Next]_vars


(***************************************************************************)
(* Vocabulary of the properties.                                           *)
(***************************************************************************)
Done == pc = "done"
Has(e) == \E i \in 1..Len(log) : log[i] = e

\* The host had the suite installed when the run started.
WasInstalled == fs0.base /\ fs0.client /\ fs0.root["cm"].present

\* A privileged run that discovered a latest version.
Discovered == run > 0 /\ is_root(uid) /\ latest_version # None

\* The launcher names of the installer's documentation.
DocumentedLaunchers ==
    {"clconfigureclient", "cm", "gtkplastic", "gtkmergetool", "plasticapi",
     "repostatscalculator", "mono_setup"}

\* The fetch, commit and cleanup steps of the log, in order.
StepKinds ==
    {"fetch runtime", "fetch client", "fetch server", "commit client",
     "commit server", "cleanup"}
IsStep(e) == e \in StepKinds
Steps == SelectSeq(log, IsStep)

\* The download of the client bundle raised: it is the last operation so
\* far with its exception in flight, or the finally block followed it.
ClientFetchFailed ==
    \E i \in 1..Len(log) :
       /\ log[i] = "fetch client"
       /\ IF i = Len(log) THEN exc # "" ELSE log[i + 1] = "cleanup"

(***************************************************************************)
(* C1: when a run that entered do_first_install or do_upgrade has ended,   *)
(* neither the staged client subtree nor the staged server subtree exists. *)
(***************************************************************************)
C1_StagingRemoved ==
    (Done /\ (Has("do_first_install") \/ Has("do_upgrade")))
        => (~fs.tmpClient.dir /\ ~fs.tmpServer)

C3_ClientFetchFails ==
    ClientFetchFailed
        => /\ exc = "FetchError"
           /\ ~Has("fetch server")
           /\ ~Has("commit server")
           /\ ~Has("commit client")
           /\ pc \in {"c_finally", "except", "done"}
           /\ Done => /\ outcome = "Failed"
                      /\ Has("cleanup")
                      /\ ~fs.tmpClient.dir

C3_Witness == Done /\ ClientFetchFailed /\ outcome = "Failed"

(***************************************************************************)
(* C4: a privileged run on an installed host whose cm prints the text of   *)
(* the latest version ends in UpToDate with the filesystem untouched.      *)
(***************************************************************************)
C4_UpToDate ==
    (Done /\ Discovered /\ WasInstalled /\ fs0.cmVer = latest_version.val)
        => (outcome = "UpToDate" /\ fs = fs0)

(***************************************************************************)
(* C5: a privileged run with a discovered latest version on a host with no *)
(* live root enters do_first_install, whatever --no-upgrade is.            *)
(***************************************************************************)
C5_FirstInstall ==
    (Discovered /\ ~fs0.base /\ Has("probe"))
        => /\ pc = "first" \/ Has("do_first_install")
           /\ ~Has("do_upgrade")
           /\ outcome \notin {"SkippedUpgrade", "UpToDate", "UpgradeReturned"}

C5_Witness ==
    Discovered /\ ~fs0.base /\ no_upgrade /\ Has("do_first_install")

(***************************************************************************)
(* C6: a privileged run with --no-upgrade on an installed host whose cm    *)
(* prints another text than the latest version ends in SkippedUpgrade      *)
(* right after the probe: neither do_upgrade nor do_first_install is       *)
(* entered and the filesystem is as it was when the run started.           *)
(***************************************************************************)
C6_SkippedUpgrade ==
    (Discovered /\ WasInstalled /\ fs0.cmVer # latest_version.val
       /\ no_upgrade /\ Has("probe"))
        => /\ Done
           /\ outcome = "SkippedUpgrade"
           /\ Len(log) = 2
           /\ log[2] = "probe"
           /\ fs = fs0

C6_Witness ==
    /\ Done /\ outcome = "SkippedUpgrade"
    /\ WasInstalled /\ fs0.cmVer # latest_version.val

(***************************************************************************)
(* C7: an unprivileged run ends in PermissionDenied at once: no page       *)
(* request, no probe, no download, no change of the filesystem.            *)
(***************************************************************************)
C7_PermissionDenied ==
    (run > 0 /\ uid # 0)
        => /\ Done
           /\ outcome = "PermissionDenied"
           /\ log = <<>>
           /\ page = NoPage
           /\ latest_version = None
           /\ current_version = None
           /\ fs = fs0

C7_Witness == run > 0 /\ uid # 0 /\ Done /\ fs0.base

(***************************************************************************)
(* C8: when the page request fails or the page does not match the pattern, *)
(* the latest version is None and the privileged run ends in               *)
(* VersionUnknown with the page request as its only operation: no probe,   *)
(* no first install, no upgrade, no change of the filesystem.              *)
(***************************************************************************)
C8_VersionUnknown ==
    (run > 0 /\ is_root(uid)
       /\ (page.fetched = "error" \/ page.html = PageNoMatch))
        => /\ latest_version = None
           /\ Done
           /\ outcome = "VersionUnknown"
           /\ Len(log) = 1
           /\ current_version = None
           /\ fs = fs0

C8_Witness ==
    /\ Done /\ outcome = "VersionUnknown"
    /\ page.fetched = "ok" /\ page.html = PageNoMatch

(***************************************************************************)
(* C9: after a first install that ends in Complete, every documented       *)
(* launcher has a symlink in /usr/bin to the file of its name in the live  *)
(* client root, and that file is no longer in the scripts directory.       *)
(***************************************************************************)
C9_LaunchersLinked ==
    (Done /\ outcome = "Complete")
        => \A n \in DocumentedLaunchers :
              /\ fs.usrbin[n] = "link"
              /\ fs.root[n].present
              /\ ~fs.scripts[n].present

(***************************************************************************)
(* C10: when the client commit of a bundle whose mono_setup holds the      *)
(* placeholder has completed, mono_setup is in the live client root and    *)
(* holds no placeholder.                                                   *)
(***************************************************************************)
C10_PlaceholderReplaced ==
    (Has("commit client") /\ exc = "" /\ pc \in {"c_finally", "s_fetch"})
        => (fs.root["mono_setup"].present /\ ~fs.root["mono_setup"].tok)


\* Bit k of the number x.
BitOf(x, k) == (x \div (2 ^ k)) % 2

\* The permission bits of scripts/<n> as the client commit finds it.
ModeInScripts(n) ==
    IF fs.client THEN fs.scripts[n].mode ELSE fs.tmpClient.mode

\* scripts/<n> exists when the client commit reaches the launcher loop.
InScripts(n) ==
    IF fs.client THEN fs.scripts[n].present ELSE n \in fs.tmpClient.scripts

C11_Relocated(n) ==
    (~fs.root[n].present /\ fs'.root[n].present)
        => /\ InScripts(n)
           /\ fs'.root[n].mode \in 0..4095
           /\ \A k \in 0..11 :
                BitOf(fs'.root[n].mode, k) =
                  IF k \in {0, 3, 6} THEN 1 ELSE BitOf(ModeInScripts(n), k)

(***************************************************************************)
(* C11: whenever a step puts a launcher file into the live client root,    *)
(* the file was in the scripts directory (of the staged bundle, or of the  *)
(* live client when one exists) and each of its twelve permission bits is  *)
(* the bit it had there, except the three execute bits, which are set.     *)
(***************************************************************************)
C11_ExecutableBits == [][\A n \in Names : C11_Relocated(n)]_vars

\* A completed install that relocated cm from rw------- to rwx--x--x.
C11_Witness ==
    Done /\ outcome = "Complete" /\ fs.root["cm"].mode = 457


(***************************************************************************)
(* C12: a privileged run without --no-upgrade on an installed host whose   *)
(* cm prints another text than the latest version enters do_upgrade, and   *)
(* do_upgrade signals that the upgrade is not implemented: the run does    *)
(* not end as after an upgrade that returned normally.                     *)
(***************************************************************************)
C12_UpgradeSignalsNotImplemented ==
    (Done /\ Discovered /\ WasInstalled /\ fs0.cmVer # latest_version.val
       /\ ~no_upgrade)
        => (Has("do_upgrade") /\ outcome # "UpgradeReturned")

(***************************************************************************)
(* C13: for the page  Version: foo, line break, two blanks,                *)
(* <span>9.0.16.1234</span>  the latest version is the text between the    *)
(* span's tags, without the closing tag.                                   *)
(***************************************************************************)
C13_SpanText ==
    (run > 0 /\ is_root(uid) /\ page.fetched = "ok"
       /\ page.html = PageScenario)
        => latest_version = Str(<<"9">>)

(***************************************************************************)
(* C14: the second of two runs on a host that was installed before the     *)
(* first run, was left as it was by it, and whose cm prints the text of    *)
(* the latest version, ends in UpToDate with the filesystem unchanged.     *)
(***************************************************************************)
C14_Idempotent ==
    (run = 2 /\ Done /\ Discovered /\ fs0 = InstalledFs(latest_version.val))
        => (outcome = "UpToDate" /\ fs = fs0)

(***************************************************************************)
(* C15: on a host with no trust-update command in PATH, a first install    *)
(* whose runtime was extracted with its certificate tools gets through     *)
(* the certificate step and goes on to the client install.                 *)
(***************************************************************************)
C15_CertificatesBestEffort ==
    (Done /\ path = {} /\ Has("certificates") /\ fs.tools)
        => (exc # "TypeError" /\ Has("fetch client"))


\* Operation e is in the log directly after operations a and b.
After2(e, a, b) ==
    \E i \in 3..Len(log) : log[i] = e /\ log[i - 1] = b /\ log[i - 2] = a

\* The client commit went through all its steps: the client is live with
\* cm relocated, the scripts directory is gone and the shared library has
\* left the client for the runtime's lib.
ClientCommitted ==
    /\ fs.client
    /\ fs.root["cm"].present
    /\ \A n \in Names : ~fs.scripts[n].present
    /\ ~fs.gitlib
    /\ fs.libgit \/ fs.monoLib = "file"

(***************************************************************************)
(* C16: in every first install the client download starts only directly    *)
(* after the runtime download and the certificate step, with the runtime   *)
(* and its certificate tools in place; the server download starts only     *)
(* directly after the client commit and its cleanup, with the client       *)
(* commit complete (shared library relocated); and while an exception is   *)
(* in flight no download or commit starts.                                 *)
(***************************************************************************)
C16_StageOrder ==
    /\ Has("fetch client")
         => /\ After2("fetch client", "fetch runtime", "certificates")
            /\ fs.mono /\ fs.tools
    /\ Has("fetch server")
         => /\ After2("fetch server", "commit client", "cleanup")
            /\ After2("commit client", "certificates", "fetch client")
            /\ ClientCommitted
    /\ exc # "" => pc \in {"c_finally", "s_finally", "except", "done"}
    /\ (exc # "" /\ pc = "c_finally") => ~Has("fetch server")
    /\ (exc # "" /\ ~Has("cleanup") /\ pc # "c_finally")
         => ~Has("fetch client")

\* A first install that failed in the server stage, after the client stage.
C16_Witness ==
    Done /\ outcome = "Failed" /\ Has("fetch server") /\ ClientCommitted


(***************************************************************************)
(* C17: a client commit of a staged bundle that lacks the file of one of   *)
(* the documented launchers raises (a missing launcher file is fatal).     *)
(***************************************************************************)
C17_MissingFileFatal ==
    [][(pc = "c_commit" /\ ~fs.client
          /\ \E n \in DocumentedLaunchers : n \notin fs.tmpClient.scripts)
         => exc' # ""]_vars

(***************************************************************************)
(* C18: a first install that fails in the runtime download ends in Failed  *)
(* with the download's error as the reported reason.                       *)
(***************************************************************************)
C18_ReasonIsStepFailure ==
    (Done /\ Has("do_first_install") /\ log[Len(log)] = "fetch runtime")
        => (outcome = "Failed" /\ exc = "FetchError")


\* The live root holds the entry-point launcher client/cm.
LiveCm == fs.base /\ fs.client /\ fs.root["cm"].present

(***************************************************************************)
(* C19: once client/cm is in the live client root it stays there, every    *)
(* later probe returns a version (the host counts as installed) and        *)
(* do_first_install is never entered again, in this run or a later one.    *)
(***************************************************************************)
C19_StaysInstalled ==
    [][LiveCm => /\ LiveCm'
                 /\ pc' # "first"
                 /\ pc = "current" => current_version' # None]_vars

\* A second run probing a host on which an earlier run of this behaviour
\* relocated cm and then failed with the scripts directory still there.
C19_Witness ==
    /\ run = 2 /\ Has("probe") /\ current_version # None
    /\ fs0.root["cm"].present /\ fs0.scripts["plasticapi"].present

(***************************************************************************)
(* C20: an existing /usr/bin entry is never changed; a client commit that  *)
(* relocates a launcher whose /usr/bin entry exists raises                 *)
(* FileExistsError, and a run with that exception in flight goes through   *)
(* the finally block to the except clause and ends in Failed.              *)
(***************************************************************************)
C20_NeverReplacesEntry ==
    [][/\ \A n \in Names :
            fs.usrbin[n] # "none"
              => /\ fs'.usrbin[n] = fs.usrbin[n]
                 /\ (~fs.root[n].present /\ fs'.root[n].present)
                      => (exc' = "FileExistsError" /\ pc' = "c_finally")
       /\ (exc = "FileExistsError" /\ pc # "done")
            => /\ exc' = exc
               /\ pc' \in {"except", "done"}
               /\ pc' = "done" => outcome' = "Failed"]_vars

\* A run that failed at the symlink of cm, another program's /usr/bin/cm
\* being in place; cm itself was relocated.
C20_Witness ==
    /\ Done /\ outcome = "Failed" /\ exc = "FileExistsError"
    /\ fs.usrbin["cm"] = "other" /\ fs.root["cm"].present

====
